---- MODULE Spec2Model ----
(***************************************************************************)
(* Model of src/src/map.ts: transformMap, filterMap, transformMapAsync,    *)
(* allSettledMap and getOrDefault over an insertion-ordered, key-unique    *)
(* Map.  A Map is a sequence of [key, value] entries in insertion order.   *)
(* The asynchronous operations are modelled down to the promise jobs       *)
(* (microtasks) that the async closures, Promise.all / Promise.allSettled  *)
(* and the `await` of the operation enqueue, in FIFO order.                *)
(***************************************************************************)
EXTENDS Integers, Sequences, FiniteSets, TLC

\* ---------------------------------------------------------------- bounds
MaxLen == 2

Keys == {"a", "b", "c"}
Values == {1, 2}
Transforms == {"identity", "times10", "keyed"}

\* ------------------------------------------------------- the Map container
Range(s) == {s[i] : i \in 1..Len(s)}

MapKeys(m) == [i \in 1..Len(m) |-> m[i].key]

MapHas(m, k) == \E i \in 1..Len(m) : m[i].key = k

MapIndex(m, k) == CHOOSE i \in 1..Len(m) : m[i].key = k

MapGet(m, k) == m[MapIndex(m, k)].value

MapSet(m, k, v) ==
    IF MapHas(m, k)
    THEN [m EXCEPT ![MapIndex(m, k)] = [key |-> k, value |-> v]]
    ELSE Append(m, [key |-> k, value |-> v])

MapDelete(m, k) == SelectSeq(m, LAMBDA e : e.key # k)

RECURSIVE NewMapFrom(_, _)
NewMapFrom(pairs, acc) ==
    IF pairs = <<>> THEN acc
    ELSE NewMapFrom(Tail(pairs), MapSet(acc, Head(pairs).key, Head(pairs).value))

NewMap(pairs) == NewMapFrom(pairs, <<>>)

IsMap(m) == \A i, j \in 1..Len(m) : m[i].key = m[j].key => i = j

\* All maps with at most n entries over Keys and Values.
RECURSIVE SeqsUpTo(_, _)
SeqsUpTo(S, n) ==
    IF n = 0 THEN {<<>>}
    ELSE LET shorter == SeqsUpTo(S, n - 1)
         IN  shorter \cup {Append(s, x) : s \in {t \in shorter : Len(t) = n - 1}, x \in S}

Entries == [key : Keys, value : Values]
Maps == {m \in SeqsUpTo(Entries, MaxLen) : IsMap(m)}

\* ------------------------------------------- caller-supplied callbacks
KeyIndex(k) == CASE k = "a" -> 1 [] k = "b" -> 2 [] OTHER -> 3

\* The value a transform of the family produces for (value, key).
TransformResult(t, v, k) ==
    CASE t = "identity" -> v
      [] t = "times10"  -> v * 10
      [] OTHER          -> v * 10 + KeyIndex(k)

\* The failure an invocation for (value, key) raises or rejects with.
FailureOf(v, k) == [error |-> k, at |-> v]
NoReason == [error |-> "none", at |-> 0]

\* ------------------------------------------------------------------ state
VARIABLES
    map,        \* the caller's Map object handed to the operations
    pc,         \* "idle" | "launching" | "suspended" | "done"
    call,       \* the operation called and its arguments
    ret,        \* what a synchronous call returned or threw
    invoked,    \* the callback invocations made so far, in order
    tasks,      \* one record per launched invocation of an async operation
    jobs,       \* the promise job queue (FIFO)
    all,        \* the Promise.all / Promise.allSettled aggregate
    promise,    \* the promise the async operation returned
    effects     \* the invocations that ran to completion, in time order, each
                \* with the state the operation's promise had at that time

vars == <<map, pc, call, ret, invoked, tasks, jobs, all, promise, effects>>

NoCall == [op |-> "none", before |-> <<>>, transform |-> "identity",
           throwsOn |-> {}, holds |-> {}, key |-> "a", default |-> 1]
NoRet == [status |-> "none", value |-> <<>>, scalar |-> 0, reason |-> NoReason]
NoAll == [state |-> "none", values |-> <<>>, remaining |-> 0, reason |-> NoReason]
NoPromise == [state |-> "none", value |-> <<>>, reason |-> NoReason]
Undefined == [undefined |-> TRUE]

Init ==
    /\ map \in Maps
    /\ pc = "idle"
    /\ call = NoCall
    /\ ret = NoRet
    /\ invoked = <<>>
    /\ tasks = <<>>
    /\ jobs = <<>>
    /\ all = NoAll
    /\ promise = NoPromise
    /\ effects = <<>>

asyncVars == <<tasks, jobs, all, promise, effects>>

Effect(i, how) == [i |-> i, how |-> how, seen |-> promise.state]

\* ------------------------------------------------------------ transformMap
\* Array.from(map.entries(), cb): cb runs on the entries in order; a throw of
\* the transform leaves Array.from (and transformMap) at once.
RECURSIVE ArrayFromTransform(_, _, _, _, _)
ArrayFromTransform(entries, t, throwsOn, pairs, log) ==
    IF entries = <<>>
    THEN [threw |-> FALSE, reason |-> NoReason, pairs |-> pairs, invoked |-> log]
    ELSE LET e == Head(entries)
         IN  IF e.key \in throwsOn
             THEN [threw |-> TRUE, reason |-> FailureOf(e.value, e.key),
                   pairs |-> <<>>, invoked |-> Append(log, e)]
             ELSE ArrayFromTransform(Tail(entries), t, throwsOn,
                      Append(pairs, [key |-> e.key,
                                     value |-> TransformResult(t, e.value, e.key)]),
                      Append(log, e))

\* Mutant: the transform's result is dropped and the input value kept.
transformMapKeepsValues(m, t, throwsOn) ==
    LET r == ArrayFromTransform(m, "identity", throwsOn, <<>>, <<>>)
    IN  [status |-> IF r.threw THEN "threw" ELSE "returned",
         value |-> NewMap(r.pairs), scalar |-> 0,
         reason |-> r.reason, invoked |-> r.invoked]

\* Mutant: after a throw the transform still runs on the entries that follow.
transformMapEager(m, t, throwsOn) ==
    LET r == ArrayFromTransform(m, t, throwsOn, <<>>, <<>>)
    IN  IF r.threw
        THEN [status |-> "threw", value |-> <<>>, scalar |-> 0,
              reason |-> r.reason, invoked |-> m]
        ELSE [status |-> "returned", value |-> NewMap(r.pairs), scalar |-> 0,
              reason |-> NoReason, invoked |-> r.invoked]

transformMap(m, t, throwsOn) ==
    LET r == ArrayFromTransform(m, t, throwsOn, <<>>, <<>>)
    IN  IF r.threw
        THEN [status |-> "threw", value |-> <<>>, scalar |-> 0,
              reason |-> r.reason, invoked |-> r.invoked]
        ELSE [status |-> "returned", value |-> NewMap(r.pairs), scalar |-> 0,
              reason |-> NoReason, invoked |-> r.invoked]

\* Mutant: the results are written into the input map.
CallTransformMapInPlace ==
    /\ pc = "idle"
    /\ \E t \in Transforms, throwsOn \in SUBSET Keys :
          LET r == transformMap(map, t, throwsOn)
          IN  /\ call' = [NoCall EXCEPT !.op = "transformMap", !.before = map,
                                        !.transform = t, !.throwsOn = throwsOn]
              /\ ret' = [status |-> r.status, value |-> r.value,
                         scalar |-> r.scalar, reason |-> r.reason]
              /\ invoked' = r.invoked
              /\ map' = IF r.status = "returned" THEN r.value ELSE map
    /\ pc' = "done"
    /\ UNCHANGED asyncVars

CallTransformMap ==
    /\ pc = "idle"
    /\ \E t \in Transforms, throwsOn \in SUBSET Keys :
          LET r == transformMap(map, t, throwsOn)
          IN  /\ call' = [NoCall EXCEPT !.op = "transformMap", !.before = map,
                                        !.transform = t, !.throwsOn = throwsOn]
              /\ ret' = [status |-> r.status, value |-> r.value,
                         scalar |-> r.scalar, reason |-> r.reason]
              /\ invoked' = r.invoked
    /\ pc' = "done"
    /\ UNCHANGED <<map, asyncVars>>

\* --------------------------------------------------------------- filterMap
\* Array.from(map.entries()).filter(cb): the predicate runs on the entries in
\* order and keeps those it holds for; a throw leaves filterMap at once.
RECURSIVE ArrayFilter(_, _, _, _, _)
ArrayFilter(entries, holds, throwsOn, kept, log) ==
    IF entries = <<>>
    THEN [threw |-> FALSE, reason |-> NoReason, pairs |-> kept, invoked |-> log]
    ELSE LET e == Head(entries)
         IN  IF e.key \in throwsOn
             THEN [threw |-> TRUE, reason |-> FailureOf(e.value, e.key),
                   pairs |-> <<>>, invoked |-> Append(log, e)]
             ELSE ArrayFilter(Tail(entries), holds, throwsOn,
                      IF e \in holds THEN Append(kept, e) ELSE kept,
                      Append(log, e))

\* Mutant: the predicate's answer is inverted.
filterMapInverted(m, holds, throwsOn) ==
    LET r == ArrayFilter(m, Entries \ holds, throwsOn, <<>>, <<>>)
    IN  [status |-> IF r.threw THEN "threw" ELSE "returned",
         value |-> NewMap(r.pairs), scalar |-> 0,
         reason |-> r.reason, invoked |-> r.invoked]

filterMap(m, holds, throwsOn) ==
    LET r == ArrayFilter(m, holds, throwsOn, <<>>, <<>>)
    IN  IF r.threw
        THEN [status |-> "threw", value |-> <<>>, scalar |-> 0,
              reason |-> r.reason, invoked |-> r.invoked]
        ELSE [status |-> "returned", value |-> NewMap(r.pairs), scalar |-> 0,
              reason |-> NoReason, invoked |-> r.invoked]

CallFilterMap ==
    /\ pc = "idle"
    /\ \E holds \in SUBSET Entries, throwsOn \in SUBSET Keys :
          LET r == filterMap(map, holds, throwsOn)
          IN  /\ call' = [NoCall EXCEPT !.op = "filterMap", !.before = map,
                                        !.holds = holds, !.throwsOn = throwsOn]
              /\ ret' = [status |-> r.status, value |-> r.value,
                         scalar |-> r.scalar, reason |-> r.reason]
              /\ invoked' = r.invoked
    /\ pc' = "done"
    /\ UNCHANGED <<map, asyncVars>>

\* ------------------------------------------------------------ getOrDefault
\* Mutant: the default is stored whether or not the key is present.
getOrDefaultOverwrites(m, key, defaultValue) ==
    [map |-> MapSet(m, key, defaultValue),
     returned |-> MapGet(MapSet(m, key, defaultValue), key)]

\* Mutant: the default is returned whether or not the key is present.
getOrDefaultReturnsDefault(m, key, defaultValue) ==
    [map |-> IF ~MapHas(m, key) THEN MapSet(m, key, defaultValue) ELSE m,
     returned |-> defaultValue]

\* if (!map.has(key)) map.set(key, defaultValue); return map.get(key)
getOrDefault(m, key, defaultValue) ==
    LET after == IF ~MapHas(m, key) THEN MapSet(m, key, defaultValue) ELSE m
    IN  [map |-> after, returned |-> MapGet(after, key)]

CallGetOrDefault ==
    /\ pc = "idle"
    /\ \E key \in Keys, defaultValue \in Values :
          LET r == getOrDefault(map, key, defaultValue)
          IN  /\ Len(r.map) <= MaxLen
              /\ map' = r.map
              /\ call' = [NoCall EXCEPT !.op = "getOrDefault", !.before = map,
                                        !.key = key, !.default = defaultValue]
              /\ ret' = [NoRet EXCEPT !.status = "returned", !.scalar = r.returned]
    /\ invoked' = <<>>
    /\ UNCHANGED <<pc, asyncVars>>

\* ------------------------------------------------------- promise machinery
Job(type, i) == [type |-> type, i |-> i]

RECURSIVE AppendAll(_, _)
AppendAll(q, js) == IF js = <<>> THEN q ELSE AppendAll(Append(q, Head(js)), Tail(js))

\* The indices of ts, ascending, whose promise is already settled.
SettledIndices(ts) ==
    LET F[i \in 0..Len(ts)] ==
            IF i = 0 THEN <<>>
            ELSE IF ts[i].prom # "pending" THEN Append(F[i - 1], i) ELSE F[i - 1]
    IN  F[Len(ts)]

\* Subscribing to an already settled promise enqueues its reaction at once.
ReactJobs(ts) == [n \in 1..Len(SettledIndices(ts)) |-> Job("react", SettledIndices(ts)[n])]

\* What a call of the transform can do: throw, return a plain value, return a
\* promise that is already fulfilled or rejected, or return a pending promise.
ClosureKinds == {"throw", "value", "fulfilled", "rejected", "promise"}
ReturnKinds == ClosureKinds \ {"throw"}

WorkOf(kind) ==
    CASE kind = "throw" -> "threw"
      [] kind = "value" -> "returned"
      [] kind = "promise" -> "pending"
      [] OTHER -> kind

ResultOf(task) == TransformResult(call.transform, task.value, task.key)
ReasonOf(task) == FailureOf(task.value, task.key)

\* -------------------------------------------------------- transformMapAsync
\* async ([key, value]) => [key, await transform(value, key)]: the closure
\* calls the transform at once.  A throw rejects the closure's promise; a
\* plain value or a settled promise is awaited through a job; a pending
\* promise is awaited until it settles.
AsyncClosure(e, kind) ==
    [key |-> e.key, value |-> e.value,
     work |-> WorkOf(kind),
     prom |-> IF kind = "throw" THEN "rejected" ELSE "pending"]

\* The closure resumes after its await: it returns [key, result] or rethrows.
ClosureResume(task) ==
    [task EXCEPT !.prom = IF task.work \in {"returned", "fulfilled"}
                          THEN "fulfilled" ELSE "rejected"]

\* Mutant: the aggregate of no elements is left pending.
PromiseAllPendingOnEmpty(ps) ==
    [state |-> "pending",
     values |-> [i \in 1..Len(ps) |-> Undefined],
     remaining |-> Len(ps),
     reason |-> NoReason]

\* Promise.all(ps): a promise pending on Len(ps) elements, fulfilled at once
\* for no elements.
PromiseAll(ps) ==
    [state |-> IF Len(ps) = 0 THEN "fulfilled" ELSE "pending",
     values |-> [i \in 1..Len(ps) |-> Undefined],
     remaining |-> Len(ps),
     reason |-> NoReason]

\* Mutant: a rejected element is taken as a fulfilled one.
PromiseAllReactSwallows(a, ts, i) ==
    LET vals == [a.values EXCEPT ![i] = [key |-> ts[i].key, value |-> ResultOf(ts[i])]]
        left == a.remaining - 1
    IN  [a EXCEPT !.values = vals, !.remaining = left,
                  !.state = IF left = 0 /\ a.state = "pending"
                            THEN "fulfilled" ELSE a.state]

\* Mutant: every element stores the result of the first entry's invocation.
PromiseAllReactStale(a, ts, i) ==
    IF ts[i].prom = "fulfilled"
    THEN LET vals == [a.values EXCEPT ![i] = [key |-> ts[i].key, value |-> ResultOf(ts[1])]]
             left == a.remaining - 1
         IN  [a EXCEPT !.values = vals, !.remaining = left,
                       !.state = IF left = 0 /\ a.state = "pending"
                                 THEN "fulfilled" ELSE a.state]
    ELSE IF a.state = "pending"
         THEN [a EXCEPT !.state = "rejected", !.reason = ReasonOf(ts[i])]
         ELSE a

\* Mutant: results are stored in the order the elements settle.
PromiseAllReactCompletionOrder(a, ts, i) ==
    IF ts[i].prom = "fulfilled"
    THEN LET at == Len(ts) - a.remaining + 1
             vals == [a.values EXCEPT ![at] = [key |-> ts[i].key, value |-> ResultOf(ts[i])]]
             left == a.remaining - 1
         IN  [a EXCEPT !.values = vals, !.remaining = left,
                       !.state = IF left = 0 /\ a.state = "pending"
                                 THEN "fulfilled" ELSE a.state]
    ELSE IF a.state = "pending"
         THEN [a EXCEPT !.state = "rejected", !.reason = ReasonOf(ts[i])]
         ELSE a

\* Mutant: a rejection is surfaced only once every element has settled.
PromiseAllReactWaitsForAll(a, ts, i) ==
    LET left == a.remaining - 1
    IN  IF ts[i].prom = "fulfilled"
        THEN [a EXCEPT !.values = [a.values EXCEPT ![i] =
                                      [key |-> ts[i].key, value |-> ResultOf(ts[i])]],
                       !.remaining = left,
                       !.state = IF left = 0 /\ a.state = "pending"
                                 THEN (IF a.reason = NoReason THEN "fulfilled" ELSE "rejected")
                                 ELSE a.state]
        ELSE [a EXCEPT !.remaining = left,
                       !.reason = IF a.reason = NoReason THEN ReasonOf(ts[i]) ELSE a.reason,
                       !.state = IF left = 0 THEN "rejected" ELSE a.state]

\* Mutant: a later rejection replaces the reason already recorded.
PromiseAllReactLastWins(a, ts, i) ==
    IF ts[i].prom = "fulfilled"
    THEN LET vals == [a.values EXCEPT ![i] = [key |-> ts[i].key, value |-> ResultOf(ts[i])]]
             left == a.remaining - 1
         IN  [a EXCEPT !.values = vals, !.remaining = left,
                       !.state = IF left = 0 /\ a.state = "pending"
                                 THEN "fulfilled" ELSE a.state]
    ELSE [a EXCEPT !.state = "rejected", !.reason = ReasonOf(ts[i])]

\* Promise.all's reaction to element i settling.
PromiseAllReact(a, ts, i) ==
    IF ts[i].prom = "fulfilled"
    THEN LET vals == [a.values EXCEPT ![i] = [key |-> ts[i].key, value |-> ResultOf(ts[i])]]
             left == a.remaining - 1
         IN  [a EXCEPT !.values = vals, !.remaining = left,
                       !.state = IF left = 0 /\ a.state = "pending"
                                 THEN "fulfilled" ELSE a.state]
    ELSE IF a.state = "pending"
         THEN [a EXCEPT !.state = "rejected", !.reason = ReasonOf(ts[i])]
         ELSE a

\* return new Map(await Promise.all(...))
TransformMapAsyncSettle(a) ==
    IF a.state = "fulfilled"
    THEN [state |-> "fulfilled", value |-> NewMap(a.values), reason |-> NoReason]
    ELSE [state |-> "rejected", value |-> <<>>, reason |-> a.reason]

CallTransformMapAsync ==
    /\ pc = "idle"
    /\ \E t \in Transforms :
          call' = [NoCall EXCEPT !.op = "transformMapAsync", !.before = map,
                                 !.transform = t]
    /\ pc' = "launching"
    /\ ret' = NoRet
    /\ invoked' = <<>>
    /\ tasks' = <<>>
    /\ jobs' = <<>>
    /\ all' = NoAll
    /\ promise' = [NoPromise EXCEPT !.state = "pending"]
    /\ effects' = <<>>
    /\ UNCHANGED map

\* Mutant: the callback is not an async closure, so a throw of the transform
\* leaves Array.from and ends the launching.
LaunchClosureUnwrapped ==
    /\ pc = "launching"
    /\ call.op = "transformMapAsync"
    /\ Len(tasks) < Len(map)
    /\ \E kind \in ClosureKinds :
          LET i == Len(tasks) + 1
              e == map[i]
          IN  /\ invoked' = Append(invoked, e)
              /\ effects' = IF kind = "promise" THEN effects
                            ELSE Append(effects, Effect(i, WorkOf(kind)))
              /\ IF kind = "throw"
                 THEN /\ pc' = "done"
                      /\ promise' = [state |-> "rejected", value |-> <<>>,
                                     reason |-> FailureOf(e.value, e.key)]
                      /\ ret' = [NoRet EXCEPT !.status = "returned"]
                      /\ UNCHANGED <<tasks, jobs>>
                 ELSE /\ tasks' = Append(tasks, AsyncClosure(e, kind))
                      /\ jobs' = IF kind \in {"value", "fulfilled", "rejected"}
                                 THEN Append(jobs, Job("resume", i)) ELSE jobs
                      /\ UNCHANGED <<pc, promise, ret>>
    /\ UNCHANGED <<map, call, all>>

\* One step of Array.from(map.entries(), async closure).
LaunchClosure ==
    /\ pc = "launching"
    /\ call.op = "transformMapAsync"
    /\ Len(tasks) < Len(map)
    /\ \E kind \in ClosureKinds :
          LET i == Len(tasks) + 1
              e == map[i]
          IN  /\ tasks' = Append(tasks, AsyncClosure(e, kind))
              /\ invoked' = Append(invoked, e)
              /\ jobs' = IF kind \in {"value", "fulfilled", "rejected"}
                         THEN Append(jobs, Job("resume", i)) ELSE jobs
              /\ effects' = IF kind = "promise" THEN effects
                            ELSE Append(effects, Effect(i, WorkOf(kind)))
    /\ UNCHANGED <<map, pc, call, ret, all, promise>>

\* Promise.all subscribes to every closure promise, the function suspends at
\* its await and the call returns the pending promise.
AwaitPromiseAll ==
    /\ pc = "launching"
    /\ call.op = "transformMapAsync"
    /\ Len(tasks) >= Len(map)
    /\ all' = PromiseAll(tasks)
    /\ jobs' = AppendAll(AppendAll(jobs, ReactJobs(tasks)),
                         IF PromiseAll(tasks).state # "pending"
                         THEN <<Job("join", 0)>> ELSE <<>>)
    /\ pc' = "suspended"
    /\ ret' = [NoRet EXCEPT !.status = "returned"]
    /\ UNCHANGED <<map, call, invoked, tasks, promise, effects>>

\* The closure of entry i resumes and settles its promise.
ResumeClosure ==
    /\ pc \in {"suspended", "done"}
    /\ jobs # <<>>
    /\ Head(jobs).type = "resume"
    /\ LET i == Head(jobs).i
       IN  /\ tasks' = [tasks EXCEPT ![i] = ClosureResume(tasks[i])]
           /\ jobs' = Append(Tail(jobs), Job("react", i))
    /\ UNCHANGED <<map, pc, call, ret, invoked, all, promise, effects>>

ReactPromiseAll ==
    /\ pc \in {"suspended", "done"}
    /\ jobs # <<>>
    /\ Head(jobs).type = "react"
    /\ call.op = "transformMapAsync"
    /\ LET a == PromiseAllReact(all, tasks, Head(jobs).i)
       IN  /\ all' = a
           /\ jobs' = IF all.state = "pending" /\ a.state # "pending"
                      THEN Append(Tail(jobs), Job("join", 0))
                      ELSE Tail(jobs)
    /\ UNCHANGED <<map, pc, call, ret, invoked, tasks, promise, effects>>

\* Mutant: when the operation rejects, the invocations still pending are
\* cancelled.
ResumeTransformMapAsyncCancelling ==
    /\ pc \in {"suspended", "done"}
    /\ jobs # <<>>
    /\ Head(jobs).type = "join"
    /\ call.op = "transformMapAsync"
    /\ promise' = TransformMapAsyncSettle(all)
    /\ tasks' = [i \in 1..Len(tasks) |->
                    IF all.state = "rejected" /\ tasks[i].work = "pending"
                    THEN [tasks[i] EXCEPT !.work = "cancelled"]
                    ELSE tasks[i]]
    /\ jobs' = Tail(jobs)
    /\ pc' = "done"
    /\ UNCHANGED <<map, call, ret, invoked, all, effects>>

\* The function resumes after its await: it returns the new Map, or the
\* rejection of Promise.all is rethrown and rejects the operation's promise.
ResumeTransformMapAsync ==
    /\ pc \in {"suspended", "done"}
    /\ jobs # <<>>
    /\ Head(jobs).type = "join"
    /\ call.op = "transformMapAsync"
    /\ promise' = TransformMapAsyncSettle(all)
    /\ jobs' = Tail(jobs)
    /\ pc' = "done"
    /\ UNCHANGED <<map, call, ret, invoked, tasks, all, effects>>

\* ------------------------------------------------------------ allSettledMap
\* ([key, value]) => transform(value, key): the array element is what the
\* transform returned; Promise.allSettled sees a plain value as fulfilled and
\* a promise as what it is.
SettledElement(e, kind) ==
    [key |-> e.key, value |-> e.value,
     work |-> WorkOf(kind),
     prom |-> CASE kind = "value" -> "fulfilled"
                [] kind = "promise" -> "pending"
                [] OTHER -> kind]

PromiseAllSettled(ps) ==
    [state |-> IF Len(ps) = 0 THEN "fulfilled" ELSE "pending",
     values |-> [i \in 1..Len(ps) |-> Undefined],
     remaining |-> Len(ps),
     reason |-> NoReason]

OutcomeOf(task) ==
    IF task.prom = "fulfilled"
    THEN [status |-> "fulfilled", value |-> ResultOf(task)]
    ELSE [status |-> "rejected", reason |-> ReasonOf(task)]

\* Promise.allSettled's reaction to element i settling.
PromiseAllSettledReact(a, ts, i) ==
    LET left == a.remaining - 1
    IN  [a EXCEPT !.values = [a.values EXCEPT ![i] = OutcomeOf(ts[i])],
                  !.remaining = left,
                  !.state = IF left = 0 THEN "fulfilled" ELSE a.state]

\* for (const [i, key] of Array.from(map.keys()).entries())
\*     result.set(key, newValues[i])
RECURSIVE ZipFrom(_, _, _, _)
ZipFrom(keys, newValues, i, result) ==
    IF i > Len(keys) THEN result
    ELSE ZipFrom(keys, newValues, i + 1,
                 MapSet(result, keys[i],
                        IF i <= Len(newValues) THEN newValues[i] ELSE Undefined))

\* The zip pass enumerates the keys of the map as it is at that time.
AllSettledMapResult(m, newValues) == ZipFrom(MapKeys(m), newValues, 1, <<>>)

CallAllSettledMap ==
    /\ pc = "idle"
    /\ \E t \in Transforms :
          call' = [NoCall EXCEPT !.op = "allSettledMap", !.before = map,
                                 !.transform = t]
    /\ pc' = "launching"
    /\ ret' = NoRet
    /\ invoked' = <<>>
    /\ tasks' = <<>>
    /\ jobs' = <<>>
    /\ all' = NoAll
    /\ promise' = [NoPromise EXCEPT !.state = "pending"]
    /\ effects' = <<>>
    /\ UNCHANGED map

\* One step of Array.from(map.entries(), callback) where the transform returns.
LaunchTransform ==
    /\ pc = "launching"
    /\ call.op = "allSettledMap"
    /\ Len(tasks) < Len(map)
    /\ \E kind \in ReturnKinds :
          LET i == Len(tasks) + 1
              e == map[i]
          IN  /\ tasks' = Append(tasks, SettledElement(e, kind))
              /\ invoked' = Append(invoked, e)
              /\ effects' = IF kind = "promise" THEN effects
                            ELSE Append(effects, Effect(i, WorkOf(kind)))
    /\ UNCHANGED <<map, pc, call, ret, jobs, all, promise>>

\* One step of Array.from(map.entries(), callback) where the transform throws:
\* the exception leaves Array.from and rejects the async function's promise.
LaunchTransformThrows ==
    /\ pc = "launching"
    /\ call.op = "allSettledMap"
    /\ Len(tasks) < Len(map)
    /\ LET e == map[Len(tasks) + 1]
       IN  /\ invoked' = Append(invoked, e)
           /\ effects' = Append(effects, Effect(Len(tasks) + 1, "threw"))
           /\ promise' = [state |-> "rejected", value |-> <<>>,
                          reason |-> FailureOf(e.value, e.key)]
    /\ pc' = "done"
    /\ ret' = [NoRet EXCEPT !.status = "returned"]
    /\ UNCHANGED <<map, call, tasks, jobs, all>>

AwaitPromiseAllSettled ==
    /\ pc = "launching"
    /\ call.op = "allSettledMap"
    /\ Len(tasks) >= Len(map)
    /\ all' = PromiseAllSettled(tasks)
    /\ jobs' = AppendAll(AppendAll(jobs, ReactJobs(tasks)),
                         IF PromiseAllSettled(tasks).state # "pending"
                         THEN <<Job("join", 0)>> ELSE <<>>)
    /\ pc' = "suspended"
    /\ ret' = [NoRet EXCEPT !.status = "returned"]
    /\ UNCHANGED <<map, call, invoked, tasks, promise, effects>>

ReactPromiseAllSettled ==
    /\ pc \in {"suspended", "done"}
    /\ jobs # <<>>
    /\ Head(jobs).type = "react"
    /\ call.op = "allSettledMap"
    /\ LET a == PromiseAllSettledReact(all, tasks, Head(jobs).i)
       IN  /\ all' = a
           /\ jobs' = IF all.state = "pending" /\ a.state # "pending"
                      THEN Append(Tail(jobs), Job("join", 0))
                      ELSE Tail(jobs)
    /\ UNCHANGED <<map, pc, call, ret, invoked, tasks, promise, effects>>

ResumeAllSettledMap ==
    /\ pc \in {"suspended", "done"}
    /\ jobs # <<>>
    /\ Head(jobs).type = "join"
    /\ call.op = "allSettledMap"
    /\ promise' = [state |-> "fulfilled",
                   value |-> AllSettledMapResult(map, all.values),
                   reason |-> NoReason]
    /\ jobs' = Tail(jobs)
    /\ pc' = "done"
    /\ UNCHANGED <<map, call, ret, invoked, tasks, all, effects>>

\* ------------------------------------------------------------- environment
\* The pending promise a transform returned settles (the invocation's own
\* work completes).  Nothing settles and no job runs while the launching code
\* is on the stack; a promise nothing subscribed to enqueues no reaction.
SettleInvocation ==
    /\ pc \in {"suspended", "done"}
    /\ \E i \in 1..Len(tasks), how \in {"fulfilled", "rejected"} :
          /\ tasks[i].work = "pending"
          /\ effects' = Append(effects, Effect(i, how))
          /\ IF call.op = "transformMapAsync"
             THEN /\ tasks' = [tasks EXCEPT ![i].work = how]
                  /\ jobs' = Append(jobs, Job("resume", i))
             ELSE /\ tasks' = [tasks EXCEPT ![i].work = how, ![i].prom = how]
                  /\ jobs' = IF all.state = "none" THEN jobs
                             ELSE Append(jobs, Job("react", i))
    /\ UNCHANGED <<map, pc, call, ret, invoked, all, promise>>

\* The caller changes the Map it passed in, once, while the operation is
\* suspended (the operations hold a reference to the caller's Map, not a copy).
CallerMutates ==
    /\ pc = "suspended"
    /\ map = call.before
    /\ \/ \E k \in Keys : MapHas(map, k) /\ map' = MapDelete(map, k)
       \/ \E k \in Keys, v \in Values :
             /\ ~MapHas(map, k)
             /\ map' = MapSet(map, k, v)
    /\ UNCHANGED <<pc, call, ret, invoked, tasks, jobs, all, promise, effects>>

Next ==
    \/ CallTransformMap
    \/ CallFilterMap
    \/ CallGetOrDefault
    \/ CallTransformMapAsync
    \/ LaunchClosure
    \/ AwaitPromiseAll
    \/ ResumeClosure
    \/ ReactPromiseAll
    \/ ResumeTransformMapAsync
    \/ CallAllSettledMap
    \/ LaunchTransform
    \/ LaunchTransformThrows
    \/ AwaitPromiseAllSettled
    \/ ReactPromiseAllSettled
    \/ ResumeAllSettledMap
    \/ SettleInvocation

Spec == Init /\ [][Next]_vars

\* The event loop runs every queued job and the synchronous part of a call
\* runs to its end; every pending invocation settles at some time (the
\* premise of the termination claims).  Calls themselves are not forced.
Fairness ==
    /\ WF_vars(LaunchClosure)
    /\ WF_vars(AwaitPromiseAll)
    /\ WF_vars(ResumeClosure)
    /\ WF_vars(ReactPromiseAll)
    /\ WF_vars(ResumeTransformMapAsync)
    /\ WF_vars(LaunchTransform \/ LaunchTransformThrows)
    /\ WF_vars(AwaitPromiseAllSettled)
    /\ WF_vars(ReactPromiseAllSettled)
    /\ WF_vars(ResumeAllSettledMap)
    /\ WF_vars(SettleInvocation)

FairSpec == Spec /\ Fairness

NextMutating == Next \/ CallerMutates

SpecMutating == Init /\ [][NextMutating]_vars

\* ------------------------------------------------------------- properties
Succeeded(task) == task.work \in {"returned", "fulfilled"}
Failed(task) == task.work \in {"threw", "rejected"}
Quiescent == pc \in {"suspended", "done"} /\ jobs = <<>>
KeySet(m) == Range(MapKeys(m))

\* The outcome record the invocation for entry i of the input map must have.
ExpectedOutcome(task) ==
    IF Succeeded(task)
    THEN [status |-> "fulfilled",
          value |-> TransformResult(call.transform, MapGet(call.before, task.key), task.key)]
    ELSE [status |-> "rejected",
          reason |-> FailureOf(MapGet(call.before, task.key), task.key)]

\* C1: whatever mix of throwing, rejecting and succeeding invocations, the
\* promise of allSettledMap never rejects, and when it resolves the map has
\* the key set of the input and, per key, the outcome of that key's invocation.
AllSettledMapNeverRejects ==
    call.op = "allSettledMap" =>
        /\ promise.state # "rejected"
        /\ promise.state = "fulfilled" =>
              /\ KeySet(promise.value) = KeySet(call.before)
              /\ \A i \in 1..Len(tasks) :
                    MapGet(promise.value, tasks[i].key) = ExpectedOutcome(tasks[i])

\* C2: transformMapAsync delivers a map only if no invocation failed, and then
\* a complete one; a rejection carries no map and the reason of an invocation
\* that did fail; once every job has run, a failed invocation means the
\* promise is rejected.
TransformMapAsyncFailFast ==
    call.op = "transformMapAsync" =>
        /\ promise.state = "fulfilled" =>
              /\ \A i \in 1..Len(tasks) : Succeeded(tasks[i])
              /\ Len(promise.value) = Len(call.before)
              /\ KeySet(promise.value) = KeySet(call.before)
        /\ promise.state = "rejected" =>
              /\ promise.value = <<>>
              /\ \E i \in 1..Len(tasks) :
                    Failed(tasks[i]) /\ promise.reason = ReasonOf(tasks[i])
        /\ (Quiescent /\ \E i \in 1..Len(tasks) : Failed(tasks[i])) =>
              promise.state = "rejected"

\* C2 witness: the operation rejected although another invocation succeeded.
RejectedWithASuccess ==
    /\ call.op = "transformMapAsync"
    /\ promise.state = "rejected"
    /\ \E i, j \in 1..Len(tasks) : Failed(tasks[i]) /\ tasks[j].work = "fulfilled"

\* C3: when no invocation of transformMapAsync fails the promise resolves,
\* once every job has run, to a map with the key set of the input whose value
\* under each key is the result of that key's own invocation.
TransformMapAsyncMapsEveryEntry ==
    call.op = "transformMapAsync" =>
        /\ promise.state = "fulfilled" =>
              /\ KeySet(promise.value) = KeySet(call.before)
              /\ Len(promise.value) = Len(call.before)
              /\ \A i \in 1..Len(call.before) :
                    MapGet(promise.value, call.before[i].key) =
                        TransformResult(call.transform, call.before[i].value,
                                        call.before[i].key)
        /\ (/\ Quiescent
            /\ Len(tasks) = Len(call.before)
            /\ \A i \in 1..Len(tasks) : Succeeded(tasks[i])) =>
              promise.state = "fulfilled"

\* C3 witness: a map of two entries with different results was delivered.
ResolvedTwoEntries ==
    /\ call.op = "transformMapAsync"
    /\ call.transform = "keyed"
    /\ promise.state = "fulfilled"
    /\ Len(promise.value) = 2
    /\ \E i \in 1..Len(tasks) : tasks[i].work = "fulfilled"

\* C4: the key order of the map either async operation delivers is the key
\* order of the input map, whatever the order the invocations completed in.
OutputOrderIsInputOrder ==
    (call.op \in {"transformMapAsync", "allSettledMap"} /\ promise.state = "fulfilled") =>
        MapKeys(promise.value) = MapKeys(call.before)

\* C4 witness: a map was delivered after a later entry completed before an
\* earlier one.
ResolvedOutOfCompletionOrder ==
    /\ call.op = "allSettledMap"
    /\ promise.state = "fulfilled"
    /\ Len(effects) >= 2
    /\ effects[1].i > effects[2].i

\* C5: in both async operations, once the operation waits on its invocations
\* or is over, the transform has been invoked exactly once per entry of the
\* input map, in input order.
LaunchesEveryEntryBeforeWaiting ==
    (call.op \in {"transformMapAsync", "allSettledMap"} /\ pc \in {"suspended", "done"}) =>
        invoked = call.before

\* C6: allSettledMap attaches each outcome to the key whose invocation
\* produced it, whatever happens to the source map while it is suspended.
ZipsWithScheduledKeys ==
    (call.op = "allSettledMap" /\ promise.state = "fulfilled") =>
        /\ Len(promise.value) = Len(tasks)
        /\ \A i \in 1..Len(tasks) :
              /\ promise.value[i].key = tasks[i].key
              /\ promise.value[i].value = ExpectedOutcome(tasks[i])

\* A step that cancels nothing: a pending invocation stays pending or
\* completes, completed ones stay as they are, the log of completions only
\* grows, and a rejection already surfaced is not replaced.
NeverCancelsStep ==
    (call.op = "transformMapAsync" /\ pc \in {"suspended", "done"}) =>
        /\ Len(tasks') = Len(tasks)
        /\ \A i \in 1..Len(tasks) :
              \/ tasks'[i].work = tasks[i].work
              \/ tasks[i].work = "pending" /\ tasks'[i].work \in {"fulfilled", "rejected"}
        /\ Len(effects') >= Len(effects)
        /\ SubSeq(effects', 1, Len(effects)) = effects
        /\ promise.state = "rejected" => promise' = promise

\* C7: transformMapAsync never stops a launched invocation: in every step of
\* the operation, before and after its promise has rejected, a pending
\* invocation stays pending or completes and its completion is logged; only
\* its result is discarded, the rejection already surfaced stays.
TransformMapAsyncNeverCancels == [][NeverCancelsStep]_vars

\* C7 witness: an invocation completed after the operation had rejected.
CompletedAfterRejection ==
    /\ call.op = "transformMapAsync"
    /\ promise.state = "rejected"
    /\ \E n \in 1..Len(effects) : effects[n].seen = "rejected"

\* C8: getOrDefault on an absent key appends exactly the entry key -> default
\* and returns the default; on a present key it leaves the map as it was and
\* returns the stored value; the returned value is the one stored afterwards.
GetOrDefaultContract ==
    (call.op = "getOrDefault" /\ ret.status = "returned") =>
        /\ IF MapHas(call.before, call.key)
           THEN /\ map = call.before
                /\ ret.scalar = MapGet(call.before, call.key)
           ELSE /\ map = Append(call.before, [key |-> call.key, value |-> call.default])
                /\ ret.scalar = call.default
        /\ MapHas(map, call.key)
        /\ ret.scalar = MapGet(map, call.key)

\* C8 witness: getOrDefault was called on a present key with another default.
GetOrDefaultOnPresentKey ==
    /\ call.op = "getOrDefault"
    /\ MapHas(call.before, call.key)
    /\ MapGet(call.before, call.key) # call.default

\* C9: for a transform that does not throw, transformMap returns a map with
\* the keys of the input in input order whose values are the transform's
\* results; with the identity transform it equals the input.
TransformMapContract ==
    call.op = "transformMap" =>
        /\ (call.throwsOn \cap KeySet(call.before) = {}) => ret.status = "returned"
        /\ ret.status = "returned" =>
              /\ MapKeys(ret.value) = MapKeys(call.before)
              /\ \A i \in 1..Len(call.before) :
                    ret.value[i].value =
                        TransformResult(call.transform, call.before[i].value,
                                        call.before[i].key)
              /\ call.transform = "identity" => ret.value = call.before

\* C9 witness: transformMap returned for two entries and a key-dependent
\* transform.
TransformMapReturnedTwo ==
    /\ call.op = "transformMap"
    /\ call.transform = "keyed"
    /\ ret.status = "returned"
    /\ Len(ret.value) = 2

\* C10: filterMap returns exactly the entries the predicate holds for, values
\* unchanged, in their relative order in the input.
FilterMapContract ==
    (call.op = "filterMap" /\ ret.status = "returned") =>
        ret.value = SelectSeq(call.before, LAMBDA e : e \in call.holds)

\* C10 witness: filterMap dropped the first of two entries and kept the second.
FilterMapKeptSecond ==
    /\ call.op = "filterMap"
    /\ ret.status = "returned"
    /\ Len(call.before) = 2
    /\ ret.value = <<call.before[2]>>
\* The positions of the input map whose callback invocation throws.
Throwers == {i \in 1..Len(call.before) : call.before[i].key \in call.throwsOn}
FirstThrower == CHOOSE i \in Throwers : \A j \in Throwers : i <= j

\* C11: when the transform of transformMap or the predicate of filterMap
\* throws on an entry, the callback has run on the entries up to that one and
\* on none after it, the caller gets that entry's failure and no map.
AbortsOnFirstThrow ==
    call.op \in {"transformMap", "filterMap"} =>
        IF Throwers = {}
        THEN ret.status = "returned" /\ invoked = call.before
        ELSE /\ ret.status = "threw"
             /\ ret.value = <<>>
             /\ ret.reason = FailureOf(call.before[FirstThrower].value,
                                       call.before[FirstThrower].key)
             /\ invoked = SubSeq(call.before, 1, FirstThrower)

\* C11 witness: the predicate of filterMap threw on the first of two entries.
FilterMapThrewOnFirst ==
    /\ call.op = "filterMap"
    /\ ret.status = "threw"
    /\ Len(call.before) = 2
    /\ Len(invoked) = 1
EmptyMapResolvesEmpty ==
    (call.op = "transformMapAsync" /\ call.before = <<>>) =>
        /\ invoked = <<>>
        /\ tasks = <<>>
        /\ promise.state # "rejected"
        /\ promise.state = "fulfilled" => promise.value = <<>>
        /\ Quiescent => promise.state = "fulfilled"

\* C13 witness: transformMapAsync of the empty map has delivered.
EmptyMapDelivered ==
    /\ call.op = "transformMapAsync"
    /\ call.before = <<>>
    /\ pc = "done"
    /\ promise.state = "fulfilled"
\* C14: transformMapAsync does not wait for pending invocations once one has
\* failed: when every job has run, a failed invocation means the operation is
\* over and its promise rejected, although other invocations are still pending.
FailsWithoutWaiting ==
    (/\ call.op = "transformMapAsync"
     /\ Quiescent
     /\ \E i \in 1..Len(tasks) : Failed(tasks[i])
     /\ \E j \in 1..Len(tasks) : tasks[j].work = "pending") =>
        /\ pc = "done"
        /\ promise.state = "rejected"

\* C14 witness: for {a: 1, b: 2}, a's invocation is pending, b's has rejected
\* and the operation is rejected with b's failure.
RejectedWhileOtherPending ==
    /\ call.op = "transformMapAsync"
    /\ call.before = <<[key |-> "a", value |-> 1], [key |-> "b", value |-> 2]>>
    /\ Len(tasks) = 2
    /\ tasks[1].work = "pending"
    /\ tasks[2].work = "rejected"
    /\ promise.state = "rejected"
    /\ promise.reason = FailureOf(2, "b")
NonePending == \A i \in 1..Len(tasks) : tasks[i].work # "pending"

\* C15: the promise of allSettledMap is not fulfilled while a launched
\* invocation is pending; once every launched invocation has settled and every
\* job has run it is fulfilled, and that of transformMapAsync is settled.
SettlesWhenAllSettle ==
    /\ call.op = "allSettledMap" =>
          /\ promise.state = "fulfilled" => NonePending
          /\ (Quiescent /\ NonePending) => promise.state = "fulfilled"
    /\ call.op = "transformMapAsync" =>
          ((Quiescent /\ NonePending) => promise.state \in {"fulfilled", "rejected"})

\* The part of C15 that no synchronous throw is involved in, as liveness under
\* FairSpec: transformMapAsync always settles, and allSettledMap settles.
TransformMapAsyncSettles ==
    (call.op = "transformMapAsync") ~> (promise.state \in {"fulfilled", "rejected"})
AllSettledMapSettles ==
    (call.op = "allSettledMap") ~> (promise.state \in {"fulfilled", "rejected"})
AllSettledMapResolves ==
    (call.op = "allSettledMap") ~> (promise.state = "fulfilled")
\* A step that keeps every key of the map with its value and, when it is a
\* getOrDefault call on a key already present, returns the value stored before.
KeepsStoredValuesStep ==
    /\ \A k \in Keys :
          MapHas(map, k) => (MapHas(map', k) /\ MapGet(map', k) = MapGet(map, k))
    /\ (call'.op = "getOrDefault" /\ MapHas(map, call'.key)) =>
          ret'.scalar = MapGet(map, call'.key)

\* C16: over any sequence of getOrDefault calls on a map no key is removed,
\* the value under a key never changes once the key is present, and a call on
\* a present key returns the stored value whatever default it is given.
GetOrDefaultKeepsFirstValue == [][KeepsStoredValuesStep]_vars

\* C16 witness: after getOrDefault(M, "a", 1) stored 1, getOrDefault(M, "a", 2)
\* returned 1 and left the map {a: 1}.
SecondCallReturnedFirstValue ==
    /\ call.op = "getOrDefault"
    /\ call.before = <<[key |-> "a", value |-> 1]>>
    /\ call.key = "a"
    /\ call.default = 2
    /\ ret.scalar = 1
    /\ map = <<[key |-> "a", value |-> 1]>>
\* C17: in transformMapAsync a transform that throws synchronously does not
\* make the call throw and does not stop the launching: the call returns its
\* promise with the transform invoked on every entry, and once every job has
\* run the promise is rejected.
SyncThrowBecomesRejection ==
    call.op = "transformMapAsync" =>
        /\ ret.status # "threw"
        /\ pc = "launching" => promise.state = "pending"
        /\ pc \in {"suspended", "done"} =>
              /\ ret.status = "returned"
              /\ invoked = call.before
              /\ Len(tasks) = Len(call.before)
        /\ (Quiescent /\ \E i \in 1..Len(tasks) : tasks[i].work = "threw") =>
              promise.state = "rejected"

\* C17 witness: the transform threw on the first of two entries, was still
\* invoked on the second, and the operation rejected with the thrown failure.
ThrewOnFirstLaunchedSecond ==
    /\ call.op = "transformMapAsync"
    /\ Len(tasks) = 2
    /\ tasks[1].work = "threw"
    /\ tasks[2].work # "threw"
    /\ invoked = call.before
    /\ promise.state = "rejected"
    /\ promise.reason = ReasonOf(tasks[1])
\* The failures among the completed invocations, in the order they occurred.
FailureLog == SelectSeq(effects, LAMBDA x : x.how \in {"threw", "rejected"})

\* The positions whose invocation threw synchronously.
ThrewAt == {i \in 1..Len(tasks) : tasks[i].work = "threw"}

\* The failure the operation surfaces: that of the earliest entry whose
\* transform threw, if one did, else the rejection that occurred first.
SurfacedFailure ==
    IF ThrewAt # {}
    THEN tasks[CHOOSE i \in ThrewAt : \A j \in ThrewAt : i <= j]
    ELSE tasks[Head(FailureLog).i]

\* C18 as claimed: transformMapAsync rejects with the reason of the invocation
\* whose failure occurred first in time.
RejectsWithFirstFailureInTime ==
    (call.op = "transformMapAsync" /\ promise.state = "rejected") =>
        promise.reason = ReasonOf(tasks[Head(FailureLog).i])

\* C18 as amended: transformMapAsync rejects with the reason of the earliest
\* entry whose transform threw synchronously, if any did, and otherwise with
\* the reason of the rejection that occurred first in time; the reason stays
\* whatever fails later.
RejectsWithFirstSeenFailure ==
    (call.op = "transformMapAsync" /\ promise.state = "rejected") =>
        promise.reason = ReasonOf(SurfacedFailure)

\* C18 witness: both of two invocations rejected, the second first; every job
\* has run and the operation carries the second entry's reason.
SecondEntryFailedFirst ==
    /\ call.op = "transformMapAsync"
    /\ Quiescent
    /\ Len(tasks) = 2
    /\ tasks[1].work = "rejected"
    /\ tasks[2].work = "rejected"
    /\ Head(FailureLog).i = 2
    /\ promise.state = "rejected"
    /\ promise.reason = ReasonOf(tasks[2])
====
